---- MODULE Spec2Model ----
(***************************************************************************)
(* Model of the two sample drivers of the criterion benchmarking library:  *)
(*   samples/csv_parsing/csv2_parse.cpp  (tokenizing benchmark driver)     *)
(*   samples/make_shared/make_shared.cpp (allocation benchmark driver)     *)
(* Each driver is a sequential program; one action per statement or        *)
(* library call of its source.  The benchmarking harness and the csv2      *)
(* Reader are collaborators whose code is outside the modelled files; they *)
(* are modelled from the design specification.                             *)
(***************************************************************************)
EXTENDS Integers, Sequences, FiniteSets, TLC

\* ------------------------------------------------------------------ bounds

\* Largest argc the driver is started with.
MaxArgc == 3
\* Most iterations the harness runs the tokenizing benchmark body.
MaxIter == 3
\* Most iterations the harness runs each allocation benchmark case.
MaxRuns == 8

\* ------------------------------------------------------------ csv driver
VARIABLES
  argc,        \* main's argc
  path,        \* argv[1], a sequence of characters (<<>> when argc < 2)
  content,     \* the bytes of the file at argv[1]
  pc,          \* position of the driver
  out,         \* lines written to std::cout, oldest first
  exitStatus,  \* <<>> while running, <<status>> once main has returned
  iter,        \* benchmark iterations the harness has completed
  csv,         \* the body's local Reader: [mapped, data]
  held,        \* memory mappings currently held by the process
  rows,        \* size_t rows
  cells,       \* size_t cells
  rowIdx,      \* rows the row iterator has yielded
  cellIdx,     \* cells the cell iterator of the current row has yielded
  attempts,    \* history: calls of csv.mmap so far
  failures,    \* history: calls of csv.mmap that returned false
  work,        \* history: loop steps (row, cell, increment) of this iteration
  totals       \* history: <<rows, cells>> at the end of each successful pass

csvVars == <<argc, path, content, pc, out, exitStatus, iter, csv, held, rows,
             cells, rowIdx, cellIdx, attempts, failures, work, totals>>

\* ------------------------------------------------------- allocation driver
VARIABLES
  acase,       \* benchmark case the harness is running: 1, 2, or 3 when done
  apc,         \* position inside the current case
  rec,         \* the Foo records that exist (a sequence, newest last)
  raw,         \* TRUE while the pointer returned by new is not yet wrapped
  ctrl,        \* strong counts of the control blocks that exist, newest last
  handle,      \* TRUE while foo_ptr is in scope
  aiter,       \* per case: completed iterations
  ctor,        \* per case: Foo constructions
  dtor,        \* per case: Foo destructions
  allocs,      \* per case: allocation requests of the ownership path
  frees,       \* per case: deallocations of the ownership path
  liveSeq,     \* per case: history of record-live values, stuttering removed
  strongSeq    \* per case: history of strong counts, stuttering removed

allocVars == <<acase, apc, rec, raw, ctrl, handle, aiter, ctor, dtor,
               allocs, frees, liveSeq, strongSeq>>

vars == <<csvVars, allocVars>>

\* --------------------------------------------------------------- strings

\* A sequence s occurs in t as a contiguous run.
Contains(t, s) ==
  \E i \in 0..(Len(t) - Len(s)) : SubSeq(t, i + 1, i + Len(s)) = s

Last(s) == s[Len(s)]

\* ------------------------------------------------- csv2 Reader (collaborator)

NL    == "\n"
Delim == ","     \* delimiter<','>
Quote == "\""    \* quote_character<'"'>

\* The pieces of s cut at every character d that is outside a quoted run
\* (quotes are only looked at when useQuote).
RECURSIVE Pieces(_, _, _, _, _, _, _)
Pieces(s, d, useQuote, i, inq, cur, done) ==
  IF i > Len(s) THEN Append(done, cur)
  ELSE IF useQuote /\ s[i] = Quote
       THEN Pieces(s, d, useQuote, i + 1, ~inq, Append(cur, s[i]), done)
  ELSE IF s[i] = d /\ ~inq
       THEN Pieces(s, d, useQuote, i + 1, inq, <<>>, Append(done, cur))
  ELSE Pieces(s, d, useQuote, i + 1, inq, Append(cur, s[i]), done)

\* The lines of a file; a final newline ends the last row and starts no other.
Lines(s) ==
  LET p == Pieces(s, NL, FALSE, 1, FALSE, <<>>, <<>>)
  IN  IF Last(p) = <<>> THEN SubSeq(p, 1, Len(p) - 1) ELSE p

\* The rows the Reader yields, each the sequence of its cells; with
\* first_row_is_header<false> the first line is a row like the others.
Tokenize(s) ==
  [r \in 1..Len(Lines(s)) |-> Pieces(Lines(s)[r], Delim, TRUE, 1, FALSE, <<>>, <<>>)]

\* A Reader as constructed: nothing mapped, nothing to iterate.
ReaderNew == [mapped |-> FALSE, data |-> <<>>]
\* The Reader after mmap returned true for a file holding bytes s.
ReaderMapped(s) == [mapped |-> TRUE, data |-> Tokenize(s)]
\* Mappings left after the Reader r is destroyed.
ReaderRelease(r, n) == IF r.mapped THEN n - 1 ELSE n

RECURSIVE SumLen(_)
SumLen(t) == IF t = <<>> THEN 0 ELSE Len(t[1]) + SumLen(Tail(t))

\* ------------------------------------------------------------ sample inputs

Paths == { <<"f">>, <<"d", "/", "g">> }

FileAbc   == <<"a", ",", "b", ",", "c", NL, "1", ",", "2", ",", "3", NL>>
FileX     == <<"x", NL>>
FileQuote == <<Quote, "a", ",", "b", Quote, ",", "c", NL>>
FileNoNl  == <<"x", ",", "y">>
FileEmpty == << >>
Files == {FileAbc, FileX, FileQuote, FileNoNl, FileEmpty}

\* ------------------------------------------------------------- output lines

UsageLine    == <<"Usage: ./main <csv_file>", NL>>
ErrorLine(p) == <<"error: Failed to open ">> \o p \o <<NL>>
Label(p)     == <<"Benchmark #1 csv2 {">> \o p \o <<"}">>

EXIT_FAILURE == 1
EXIT_SUCCESS == 0

\* ------------------------------------------------------------- csv: actions

CsvInit ==
  /\ argc \in 0..MaxArgc
  /\ path \in (IF argc >= 2 THEN Paths ELSE {<<>>})
  /\ content \in Files
  /\ pc = "main"
  /\ out = <<>>
  /\ exitStatus = <<>>
  /\ iter = 0
  /\ csv = ReaderNew
  /\ held = 0
  /\ rows = 0
  /\ cells = 0
  /\ rowIdx = 0
  /\ cellIdx = 0
  /\ attempts = 0
  /\ failures = 0
  /\ work = 0
  /\ totals = <<>>

\* if (argc != 2) { std::cout << usage; return EXIT_FAILURE; }
MainUsage ==
  /\ pc = "main"
  /\ argc # 2
  /\ out' = Append(out, UsageLine)
  /\ exitStatus' = <<EXIT_FAILURE>>
  /\ pc' = "exited"
  /\ UNCHANGED allocVars
  /\ UNCHANGED <<argc, path, content, iter, csv, held, rows, cells, rowIdx,
                 cellIdx, attempts, failures, work, totals>>

\* Mutant: the argument check written as argc < 2.
MainBenchmarkAtLeastOne ==
  /\ pc = "main"
  /\ ~(argc < 2)
  /\ pc' = "harness"
  /\ UNCHANGED allocVars
  /\ UNCHANGED <<argc, path, content, out, exitStatus, iter, csv, held, rows,
                 cells, rowIdx, cellIdx, attempts, failures, work, totals>>

\* benchmark("Benchmark #1 csv2 {" + argv[1] + "}", [&argv] {...});
MainBenchmark ==
  /\ pc = "main"
  /\ ~(argc # 2)
  /\ pc' = "harness"
  /\ UNCHANGED allocVars
  /\ UNCHANGED <<argc, path, content, out, exitStatus, iter, csv, held, rows,
                 cells, rowIdx, cellIdx, attempts, failures, work, totals>>

\* The harness reports the benchmark under its label.
HarnessBegin ==
  /\ pc = "harness"
  /\ out' = Append(out, Label(path))
  /\ pc' = "between"
  /\ UNCHANGED allocVars
  /\ UNCHANGED <<argc, path, content, exitStatus, iter, csv, held, rows,
                 cells, rowIdx, cellIdx, attempts, failures, work, totals>>

\* The harness calls the body once more.
HarnessIterate ==
  /\ pc = "between"
  /\ iter < MaxIter
  /\ pc' = "body"
  /\ UNCHANGED allocVars
  /\ UNCHANGED <<argc, path, content, out, exitStatus, iter, csv, held, rows,
                 cells, rowIdx, cellIdx, attempts, failures, work, totals>>

\* The harness has run the body at least once and returns to main.
HarnessFinish ==
  /\ pc = "between"
  /\ iter >= 1
  /\ pc' = "return"
  /\ UNCHANGED allocVars
  /\ UNCHANGED <<argc, path, content, out, exitStatus, iter, csv, held, rows,
                 cells, rowIdx, cellIdx, attempts, failures, work, totals>>

\* Reader<...> csv;
BodyEnter ==
  /\ pc = "body"
  /\ csv' = ReaderNew
  /\ work' = 0
  /\ pc' = "mmap"
  /\ UNCHANGED allocVars
  /\ UNCHANGED <<argc, path, content, out, exitStatus, iter, held, rows,
                 cells, rowIdx, cellIdx, attempts, failures, totals>>

\* if (csv.mmap(argv[1])) : the mapping succeeds
MmapOk ==
  /\ pc = "mmap"
  /\ csv' = ReaderMapped(content)
  /\ held' = held + 1
  /\ attempts' = attempts + 1
  /\ pc' = "then"
  /\ UNCHANGED allocVars
  /\ UNCHANGED <<argc, path, content, out, exitStatus, iter, rows, cells,
                 rowIdx, cellIdx, failures, work, totals>>

\* if (csv.mmap(argv[1])) : the mapping fails
MmapFail ==
  /\ pc = "mmap"
  /\ attempts' = attempts + 1
  /\ failures' = failures + 1
  /\ pc' = "else"
  /\ UNCHANGED allocVars
  /\ UNCHANGED <<argc, path, content, out, exitStatus, iter, csv, held, rows,
                 cells, rowIdx, cellIdx, work, totals>>

\* Mutant: the counters declared outside the body, never reset.
CountersInitNoReset ==
  /\ pc = "then"
  /\ rowIdx' = 0
  /\ pc' = "rowloop"
  /\ UNCHANGED allocVars
  /\ UNCHANGED <<argc, path, content, out, exitStatus, iter, csv, held, rows,
                 cells, cellIdx, attempts, failures, work, totals>>

\* Mutant: the Reader configured with first_row_is_header<true>.
CountersInitSkipHeader ==
  /\ pc = "then"
  /\ rows' = 0
  /\ cells' = 0
  /\ rowIdx' = IF Len(csv.data) > 0 THEN 1 ELSE 0
  /\ pc' = "rowloop"
  /\ UNCHANGED allocVars
  /\ UNCHANGED <<argc, path, content, out, exitStatus, iter, csv, held,
                 cellIdx, attempts, failures, work, totals>>

\* size_t rows{0}, cells{0};  and the row loop's begin()
CountersInit ==
  /\ pc = "then"
  /\ rows' = 0
  /\ cells' = 0
  /\ rowIdx' = 0
  /\ pc' = "rowloop"
  /\ UNCHANGED allocVars
  /\ UNCHANGED <<argc, path, content, out, exitStatus, iter, csv, held,
                 cellIdx, attempts, failures, work, totals>>

\* for (const auto row : csv) : the next row, or the end of the loop
RowNext ==
  /\ pc = "rowloop"
  /\ IF rowIdx < Len(csv.data)
     THEN /\ rowIdx' = rowIdx + 1
          /\ work' = work + 1
          /\ pc' = "rowbody"
     ELSE /\ pc' = "scope_end"
          /\ UNCHANGED <<rowIdx, work>>
  /\ UNCHANGED allocVars
  /\ UNCHANGED <<argc, path, content, out, exitStatus, iter, csv, held, rows,
                 cells, cellIdx, attempts, failures, totals>>

\* rows += 1;  and the cell loop's begin()
RowsIncr ==
  /\ pc = "rowbody"
  /\ rows' = rows + 1
  /\ cellIdx' = 0
  /\ work' = work + 1
  /\ pc' = "cellloop"
  /\ UNCHANGED allocVars
  /\ UNCHANGED <<argc, path, content, out, exitStatus, iter, csv, held,
                 cells, rowIdx, attempts, failures, totals>>

\* for (const auto cell : row) : the next cell, or the end of the loop
CellNext ==
  /\ pc = "cellloop"
  /\ IF cellIdx < Len(csv.data[rowIdx])
     THEN /\ cellIdx' = cellIdx + 1
          /\ work' = work + 1
          /\ pc' = "cellbody"
     ELSE /\ pc' = "rowloop"
          /\ UNCHANGED <<cellIdx, work>>
  /\ UNCHANGED allocVars
  /\ UNCHANGED <<argc, path, content, out, exitStatus, iter, csv, held, rows,
                 cells, rowIdx, attempts, failures, totals>>

\* cells += 1;
CellsIncr ==
  /\ pc = "cellbody"
  /\ cells' = cells + 1
  /\ work' = work + 1
  /\ pc' = "cellloop"
  /\ UNCHANGED allocVars
  /\ UNCHANGED <<argc, path, content, out, exitStatus, iter, csv, held, rows,
                 rowIdx, cellIdx, attempts, failures, totals>>

\* Mutant: the error line without argv[1].
PrintErrorNoPath ==
  /\ pc = "else"
  /\ out' = Append(out, <<"error: Failed to open ", NL>>)
  /\ pc' = "scope_end"
  /\ UNCHANGED allocVars
  /\ UNCHANGED <<argc, path, content, exitStatus, iter, csv, held, rows,
                 cells, rowIdx, cellIdx, attempts, failures, work, totals>>

\* Mutant: the else branch also returns EXIT_FAILURE from the process.
PrintErrorFatal ==
  /\ pc = "else"
  /\ out' = Append(out, ErrorLine(path))
  /\ exitStatus' = <<EXIT_FAILURE>>
  /\ pc' = "exited"
  /\ UNCHANGED allocVars
  /\ UNCHANGED <<argc, path, content, iter, csv, held, rows,
                 cells, rowIdx, cellIdx, attempts, failures, work, totals>>

\* Mutant: the error line printed only the first time.
PrintErrorOnce ==
  /\ pc = "else"
  /\ out' = IF \E i \in 1..Len(out) : out[i] = ErrorLine(path)
            THEN out ELSE Append(out, ErrorLine(path))
  /\ pc' = "scope_end"
  /\ UNCHANGED allocVars
  /\ UNCHANGED <<argc, path, content, exitStatus, iter, csv, held, rows,
                 cells, rowIdx, cellIdx, attempts, failures, work, totals>>

\* std::cout << "error: Failed to open " << argv[1] << std::endl;
PrintError ==
  /\ pc = "else"
  /\ out' = Append(out, ErrorLine(path))
  /\ pc' = "scope_end"
  /\ UNCHANGED allocVars
  /\ UNCHANGED <<argc, path, content, exitStatus, iter, csv, held, rows,
                 cells, rowIdx, cellIdx, attempts, failures, work, totals>>

\* Mutant: the Reader declared static, so it outlives the body.
BodyEndStatic ==
  /\ pc = "scope_end"
  /\ totals' = IF csv.mapped THEN Append(totals, <<rows, cells>>) ELSE totals
  /\ iter' = iter + 1
  /\ pc' = "between"
  /\ UNCHANGED allocVars
  /\ UNCHANGED <<argc, path, content, out, exitStatus, csv, held, rows, cells,
                 rowIdx, cellIdx, attempts, failures, work>>

\* } of the body: csv goes out of scope and the body returns to the harness
BodyEnd ==
  /\ pc = "scope_end"
  /\ held' = ReaderRelease(csv, held)
  /\ csv' = ReaderNew
  /\ totals' = IF csv.mapped THEN Append(totals, <<rows, cells>>) ELSE totals
  /\ iter' = iter + 1
  /\ pc' = "between"
  /\ UNCHANGED allocVars
  /\ UNCHANGED <<argc, path, content, out, exitStatus, rows, cells, rowIdx,
                 cellIdx, attempts, failures, work>>

\* } of main: falling off the end returns 0
MainReturn ==
  /\ pc = "return"
  /\ exitStatus' = <<EXIT_SUCCESS>>
  /\ pc' = "exited"
  /\ UNCHANGED allocVars
  /\ UNCHANGED <<argc, path, content, out, iter, csv, held, rows, cells,
                 rowIdx, cellIdx, attempts, failures, work, totals>>

Next ==
  \/ MainUsage
  \/ MainBenchmark
  \/ HarnessBegin
  \/ HarnessIterate
  \/ HarnessFinish
  \/ BodyEnter
  \/ MmapOk
  \/ MmapFail
  \/ CountersInit
  \/ RowNext
  \/ RowsIncr
  \/ CellNext
  \/ CellsIncr
  \/ PrintError
  \/ BodyEnd
  \/ MainReturn

\* ------------------------------------------------------ allocation: actions

\* struct Foo with its default member initializers
Foo == [data_1 |-> "1234567891012131415161718192021",
        data_2 |-> 5,
        data_3 |-> "3.1415f"]

Cases == {1, 2}   \* 1: "shared_ptr/new", 2: "shared_ptr/make_shared"

\* Strong owners of the newest record: the count of the newest control block.
Strong(c) == IF c = <<>> THEN 0 ELSE Last(c)

\* A history with the observation v added, unless it repeats the last one.
Push(h, v) == IF Last(h) = v THEN h ELSE Append(h, v)

\* The histories of case k after a step that leaves records r and blocks c.
Observe(k, r, c) ==
  /\ liveSeq' = [liveSeq EXCEPT ![k] = Push(@, r # <<>>)]
  /\ strongSeq' = [strongSeq EXCEPT ![k] = Push(@, Strong(c))]

\* The blocks left when one owner of the newest block goes away.
Released(c) ==
  IF c[Len(c)] = 1 THEN SubSeq(c, 1, Len(c) - 1)
  ELSE [c EXCEPT ![Len(c)] = @ - 1]

AllocInit ==
  /\ acase = 1
  /\ apc = "idle"
  /\ rec = <<>>
  /\ raw = FALSE
  /\ ctrl = <<>>
  /\ handle = FALSE
  /\ aiter = [k \in Cases |-> 0]
  /\ ctor = [k \in Cases |-> 0]
  /\ dtor = [k \in Cases |-> 0]
  /\ allocs = [k \in Cases |-> 0]
  /\ frees = [k \in Cases |-> 0]
  /\ liveSeq = [k \in Cases |-> <<FALSE>>]
  /\ strongSeq = [k \in Cases |-> <<0>>]

\* The harness calls the body of the current case once more.
AllocIterate ==
  /\ apc = "idle"
  /\ acase \in Cases
  /\ aiter[acase] < MaxRuns
  /\ apc' = "stmt"
  /\ UNCHANGED csvVars
  /\ UNCHANGED <<acase, rec, raw, ctrl, handle, aiter, ctor, dtor, allocs,
                 frees, liveSeq, strongSeq>>

\* The harness has run the current case at least once and goes to the next.
AllocNextCase ==
  /\ apc = "idle"
  /\ acase \in Cases
  /\ aiter[acase] >= 1
  /\ acase' = acase + 1
  /\ apc' = IF acase + 1 \in Cases THEN "idle" ELSE "done"
  /\ UNCHANGED csvVars
  /\ UNCHANGED <<rec, raw, ctrl, handle, aiter, ctor, dtor, allocs, frees,
                 liveSeq, strongSeq>>

\* new Foo()
NewFoo ==
  /\ apc = "stmt"
  /\ acase = 1
  /\ rec' = Append(rec, Foo)
  /\ raw' = TRUE
  /\ ctor' = [ctor EXCEPT ![1] = @ + 1]
  /\ allocs' = [allocs EXCEPT ![1] = @ + 1]
  /\ Observe(1, Append(rec, Foo), ctrl)
  /\ apc' = "wrap"
  /\ UNCHANGED csvVars
  /\ UNCHANGED <<acase, ctrl, handle, aiter, dtor, frees>>

\* Mutant: a second handle to the record is kept beyond the body.
WrapSharedTwoOwners ==
  /\ apc = "wrap"
  /\ acase = 1
  /\ raw' = FALSE
  /\ ctrl' = Append(ctrl, 2)
  /\ handle' = TRUE
  /\ allocs' = [allocs EXCEPT ![1] = @ + 1]
  /\ Observe(1, rec, Append(ctrl, 2))
  /\ apc' = "held"
  /\ UNCHANGED csvVars
  /\ UNCHANGED <<acase, rec, aiter, ctor, dtor, frees>>

\* std::shared_ptr<Foo> foo_ptr = std::shared_ptr<Foo>(p);
WrapShared ==
  /\ apc = "wrap"
  /\ acase = 1
  /\ raw' = FALSE
  /\ ctrl' = Append(ctrl, 1)
  /\ handle' = TRUE
  /\ allocs' = [allocs EXCEPT ![1] = @ + 1]
  /\ Observe(1, rec, Append(ctrl, 1))
  /\ apc' = "held"
  /\ UNCHANGED csvVars
  /\ UNCHANGED <<acase, rec, aiter, ctor, dtor, frees>>

\* } of "shared_ptr/new": foo_ptr is destroyed
ScopeExitNew ==
  /\ apc = "held"
  /\ acase = 1
  /\ handle' = FALSE
  /\ ctrl' = Released(ctrl)
  /\ IF Last(ctrl) = 1
     THEN /\ rec' = SubSeq(rec, 1, Len(rec) - 1)
          /\ dtor' = [dtor EXCEPT ![1] = @ + 1]
          /\ frees' = [frees EXCEPT ![1] = @ + 2]
     ELSE UNCHANGED <<rec, dtor, frees>>
  /\ Observe(1, rec', ctrl')
  /\ aiter' = [aiter EXCEPT ![1] = @ + 1]
  /\ apc' = "idle"
  /\ UNCHANGED csvVars
  /\ UNCHANGED <<acase, raw, ctor, allocs>>

\* Mutant: a second handle to the record is kept beyond the body.
MakeSharedTwoOwners ==
  /\ apc = "stmt"
  /\ acase = 2
  /\ rec' = Append(rec, Foo)
  /\ ctrl' = Append(ctrl, 2)
  /\ handle' = TRUE
  /\ ctor' = [ctor EXCEPT ![2] = @ + 1]
  /\ allocs' = [allocs EXCEPT ![2] = @ + 1]
  /\ Observe(2, Append(rec, Foo), Append(ctrl, 2))
  /\ apc' = "held"
  /\ UNCHANGED csvVars
  /\ UNCHANGED <<acase, raw, aiter, dtor, frees>>

\* std::shared_ptr<Foo> foo_ptr = std::make_shared<Foo>();
MakeShared ==
  /\ apc = "stmt"
  /\ acase = 2
  /\ rec' = Append(rec, Foo)
  /\ ctrl' = Append(ctrl, 1)
  /\ handle' = TRUE
  /\ ctor' = [ctor EXCEPT ![2] = @ + 1]
  /\ allocs' = [allocs EXCEPT ![2] = @ + 1]
  /\ Observe(2, Append(rec, Foo), Append(ctrl, 1))
  /\ apc' = "held"
  /\ UNCHANGED csvVars
  /\ UNCHANGED <<acase, raw, aiter, dtor, frees>>

\* Mutant: the handle is released without being destroyed.
ScopeExitMakeNoRelease ==
  /\ apc = "held"
  /\ acase = 2
  /\ handle' = FALSE
  /\ Observe(2, rec, ctrl)
  /\ aiter' = [aiter EXCEPT ![2] = @ + 1]
  /\ apc' = "idle"
  /\ UNCHANGED csvVars
  /\ UNCHANGED <<acase, rec, raw, ctrl, ctor, dtor, allocs, frees>>

\* } of "shared_ptr/make_shared": foo_ptr is destroyed
ScopeExitMake ==
  /\ apc = "held"
  /\ acase = 2
  /\ handle' = FALSE
  /\ ctrl' = Released(ctrl)
  /\ IF Last(ctrl) = 1
     THEN /\ rec' = SubSeq(rec, 1, Len(rec) - 1)
          /\ dtor' = [dtor EXCEPT ![2] = @ + 1]
          /\ frees' = [frees EXCEPT ![2] = @ + 1]
     ELSE UNCHANGED <<rec, dtor, frees>>
  /\ Observe(2, rec', ctrl')
  /\ aiter' = [aiter EXCEPT ![2] = @ + 1]
  /\ apc' = "idle"
  /\ UNCHANGED csvVars
  /\ UNCHANGED <<acase, raw, ctor, allocs>>

NextAlloc ==
  \/ AllocIterate
  \/ AllocNextCase
  \/ NewFoo
  \/ WrapShared
  \/ ScopeExitNew
  \/ MakeShared
  \/ ScopeExitMake

\* ----------------------------------------------------------- specifications

\* The driver that is not running: its variables never change.
CsvIdle ==
  /\ argc = 0 /\ path = <<>> /\ content = <<>> /\ pc = "off" /\ out = <<>>
  /\ exitStatus = <<>> /\ iter = 0 /\ csv = ReaderNew /\ held = 0 /\ rows = 0
  /\ cells = 0 /\ rowIdx = 0 /\ cellIdx = 0 /\ attempts = 0 /\ failures = 0
  /\ work = 0 /\ totals = <<>>

AllocIdle ==
  /\ acase = 0 /\ apc = "off" /\ rec = <<>> /\ raw = FALSE /\ ctrl = <<>>
  /\ handle = FALSE
  /\ aiter = [k \in Cases |-> 0] /\ ctor = [k \in Cases |-> 0]
  /\ dtor = [k \in Cases |-> 0] /\ allocs = [k \in Cases |-> 0]
  /\ frees = [k \in Cases |-> 0] /\ liveSeq = [k \in Cases |-> <<FALSE>>]
  /\ strongSeq = [k \in Cases |-> <<0>>]

\* The tokenizing benchmark driver.
Init == CsvInit /\ AllocIdle
Spec == Init /\ [][Next]_vars
\* The driver takes its next step whenever it has one.
FairSpec == Spec /\ WF_vars(Next)

\* The allocation benchmark driver.
InitAlloc == AllocInit /\ CsvIdle
SpecAlloc == InitAlloc /\ [][NextAlloc]_vars

\* ------------------------------------------------------- claims: csv driver

InBody == pc \in {"then", "else", "rowloop", "rowbody", "cellloop",
                  "cellbody", "scope_end"}

\* Lines of out that are the error line for argv[1].
NumErr == Cardinality({i \in 1..Len(out) : out[i] = ErrorLine(path)})
\* Lines of out that are the benchmark label.
NumLabel == Cardinality({i \in 1..Len(out) : out[i] = Label(path)})

\* C1: started with argc # 2 the driver only ever prints the usage string
\* `Usage: ./main <csv_file>` and exits with a non-zero status; it never
\* enters the benchmark: no label, no mapping attempt, no row or cell counted.
C1_UsageExit ==
  argc # 2 =>
    /\ pc \in {"main", "exited"}
    /\ attempts = 0 /\ iter = 0 /\ work = 0 /\ held = 0
    /\ rows = 0 /\ cells = 0 /\ NumLabel = 0
    /\ pc = "main" => out = <<>> /\ exitStatus = <<>>
    /\ pc = "exited" =>
         /\ Len(out) = 1
         /\ Head(out[1]) = "Usage: ./main <csv_file>"
         /\ Len(exitStatus) = 1
         /\ exitStatus[1] # 0

C1_Witness == pc = "exited" /\ argc > 2 /\ out # <<>>

\* C2: in an iteration whose mapping attempt failed no row or cell is
\* traversed and no counter incremented, and once the else branch has run
\* the last line written is an error line that contains the path argv[1].
C2_FailedMapNoCounting ==
  (InBody /\ ~csv.mapped) =>
    /\ pc \in {"else", "scope_end"}
    /\ work = 0
    /\ pc = "scope_end" =>
         /\ out # <<>>
         /\ Head(Last(out)) = "error: Failed to open "
         /\ Contains(Last(out), path)
         /\ NumErr = failures

C2_Witness ==
  pc = "scope_end" /\ ~csv.mapped /\ totals # <<>> /\ rows > 0 /\ Len(path) = 3

\* C3: when a pass over a mapped file ends, rows is the number of rows the
\* Reader yields and cells the sum of the cells of those rows; the file
\* a,b,c\n1,2,3\n gives 2 and 6, the file x\n gives 1 and 1.
C3_Counts ==
  (pc = "scope_end" /\ csv.mapped) =>
    /\ rows = Len(csv.data)
    /\ cells = SumLen(csv.data)
    /\ content = FileAbc => (rows = 2 /\ cells = 6)
    /\ content = FileX => (rows = 1 /\ cells = 1)

C3_Witness ==
  pc = "scope_end" /\ csv.mapped /\ content = FileAbc /\ rows = 2 /\ cells = 6

\* C4: every completed pass over the unchanged file ends with the same row
\* and cell totals, and inside a pass the counters hold only what this pass
\* has counted: they are zero when the row loop starts.
C4_SameTotals ==
  /\ \A i, j \in 1..Len(totals) : totals[i] = totals[j]
  /\ pc = "rowloop" =>
       /\ rows = rowIdx
       /\ cells = SumLen(SubSeq(csv.data, 1, rowIdx))

C4_Witness ==
  Len(totals) >= 2 /\ totals[2] = <<2, 6>> /\ failures >= 1 /\ pc = "between"

\* C7 (state part): one mapping attempt per iteration, a failed one does not
\* end the process, and a process that ran the benchmark exits with status 0.
C7_Inv ==
  argc = 2 =>
    /\ attempts = iter + (IF InBody THEN 1 ELSE 0)
    /\ pc = "exited" => exitStatus = <<0>>
    /\ pc # "exited" => exitStatus = <<>>
    /\ (pc = "between" /\ iter < MaxIter) => ENABLED HarnessIterate

\* C7: a mapping failure is neither retried nor fatal: each iteration makes
\* one attempt, after a failed one the harness can still iterate, and the
\* process goes on to exit with a status that is not a failure status.
C7_NonFatal ==
  /\ []C7_Inv
  /\ [](pc = "else" => <>(pc = "exited" /\ exitStatus = <<0>>))

C7_Witness ==
  pc = "exited" /\ exitStatus = <<0>> /\ failures >= 2 /\ attempts = iter

\* C8: the process holds at most one mapping, exactly while the Reader of
\* the running iteration is mapped; none is held between iterations, before
\* the benchmark, or at exit.
C8_MappingScoped ==
  /\ held <= 1
  /\ held = (IF csv.mapped THEN 1 ELSE 0)
  /\ ~InBody => held = 0

C8_Witness == pc = "rowloop" /\ held = 1 /\ totals # <<>>

\* C10: after the benchmark starts, the output holds the label once and
\* otherwise only error lines, one per failed iteration: an iteration that
\* mapped the file wrote nothing, and N failures in N iterations give N lines.
C10_Output ==
  argc = 2 =>
    /\ \A i \in 1..Len(out) : out[i] \in {Label(path), ErrorLine(path)}
    /\ NumLabel = (IF pc = "main" \/ pc = "harness" THEN 0 ELSE 1)
    /\ NumErr = failures - (IF pc = "else" THEN 1 ELSE 0)
    /\ Len(out) = NumLabel + NumErr
    /\ (~InBody /\ pc # "mmap" /\ failures = iter) => NumErr = iter

C10_Witness ==
  pc = "exited" /\ argc = 2 /\ failures = iter /\ iter >= 2 /\ NumErr = iter

\* -------------------------------------------------- claims: allocation driver

\* One of two sequences begins the other.
Comparable(a, b) ==
  \/ (Len(a) <= Len(b) /\ SubSeq(b, 1, Len(a)) = a)
  \/ (Len(b) <= Len(a) /\ SubSeq(a, 1, Len(b)) = b)

Running(k) == acase = k /\ apc \in {"wrap", "held"}

\* C5: each case has destroyed one record per completed iteration and
\* constructed one more only while an iteration holds it; between iterations
\* nothing is live: no record, no control block, no handle, count zero.
C5_Cycles ==
  \A k \in Cases :
    /\ dtor[k] = aiter[k]
    /\ ctor[k] = aiter[k] + (IF Running(k) THEN 1 ELSE 0)
    /\ apc \in {"idle", "stmt", "done"} =>
         /\ rec = <<>> /\ ctrl = <<>> /\ Strong(ctrl) = 0
         /\ ~handle /\ ~raw
         /\ ctor[k] = dtor[k]
         /\ allocs[k] = frees[k]

C5_Witness ==
  apc = "done" /\ aiter[1] = 3 /\ aiter[2] = 2 /\ ctor[1] = 3 /\ dtor[2] = 2

\* C6 as claimed: whenever a record exists its strong count is 1, and at
\* most one record exists.
C6_Original ==
  /\ Len(rec) <= 1
  /\ rec # <<>> => Strong(ctrl) = 1

\* C6 as amended: at most one record exists and the strong count never
\* exceeds 1; while foo_ptr exists the record has exactly one strong owner;
\* the only state with a record and no strong owner is the one of
\* "shared_ptr/new" between new Foo() and the construction of the handle.
C6_Amended ==
  /\ Len(rec) <= 1
  /\ Len(ctrl) <= 1
  /\ Strong(ctrl) <= 1
  /\ handle <=> Strong(ctrl) = 1
  /\ handle => Len(rec) = 1
  /\ (rec # <<>> /\ Strong(ctrl) # 1) =>
       (acase = 1 /\ apc = "wrap" /\ raw /\ Strong(ctrl) = 0)

C6_Witness ==
  acase = 1 /\ apc = "wrap" /\ rec # <<>> /\ Strong(ctrl) = 0 /\ aiter[1] >= 1

====
